---- MODULE Spec2Model ----
(***************************************************************************)
(* A state-machine model of the Space Invaders replica of src/src/main.c.  *)
(*                                                                         *)
(* One step of the model is one call of gameLoop() from the main loop, or  *)
(* one poll of the two busy-wait loops that end gameOver().  The game data *)
(* of main.c (lines 26-40) are the variables, with their C names.          *)
(*                                                                         *)
(* Arithmetic.  The uint8_t fields wrap modulo 256 (U8).  The three float  *)
(* fields enemyX, enemyY and enemyDX are held as integers in units of      *)
(* 1/Scale; sums are exact and the product with ALIEN_INCREASE_SPEED_BY is *)
(* rounded to the nearest unit, where the C float rounds to 24 significant *)
(* bits.  The conversion (int) truncates toward zero (Trunc).              *)
(*                                                                         *)
(* Display.  The frame buffer of lcd.c is the variable framebuffer, the    *)
(* set of its bits that are 1; lcdRepaint() leaves in `wire` the bytes it  *)
(* wrote to the two controllers, in order.  SpecLcd calls the functions of *)
(* lcd.c one at a time, outside the game.                                  *)
(***************************************************************************)
EXTENDS Integers, Sequences, FiniteSets, TLC

VARIABLES
    lives,              \* main.c:26
    shipAlive,          \* main.c:27
    shipX, shipY,       \* main.c:28
    enemyX, enemyY,     \* main.c:29  (units of 1/Scale)
    enemyDX,            \* main.c:30  (units of 1/Scale)
    enemyAlive,         \* main.c:31  [0..ENEMY_COUNT-1 -> 0..ALIVE]
    enemyRemaining,     \* main.c:32
    currBulletId,       \* main.c:33
    bulletWait,         \* main.c:34
    bulletX, bulletY,   \* main.c:35-36
    currEnemyBulletId,  \* main.c:37
    enemyBulletWait,    \* main.c:38
    enemyBulletX,       \* main.c:39
    enemyBulletY,       \* main.c:40
    pc,                 \* where the program is: "play", "waitRelease", "waitPress"
    display,            \* what lcdRepaint() last put on the screen
    ticks,              \* number of gameLoop() calls made so far
    rnd,                \* the value every call of rand() returns in this run
    budget,             \* what is left of the bounded environment choices
    obs,                \* what the last gameLoop() call did (its locals and events)
    fired,              \* history: the call that wrote the bullet now in a player slot
    framebuffer,        \* lcd.c:65  the bits that are 1, bit b of byte n as 8*n + b
    TEXT,               \* lcd.c:66  the glyph table in program memory
    wire,               \* the bytes the last lcdRepaint() wrote to the controllers
    call                \* the lcd.c function last called on its own, with its arguments

gameVars == <<lives, shipAlive, shipX, shipY, enemyX, enemyY, enemyDX, enemyAlive,
              enemyRemaining, currBulletId, bulletWait, bulletX, bulletY,
              currEnemyBulletId, enemyBulletWait, enemyBulletX, enemyBulletY>>

vars == <<lives, shipAlive, shipX, shipY, enemyX, enemyY, enemyDX, enemyAlive,
          enemyRemaining, currBulletId, bulletWait, bulletX, bulletY,
          currEnemyBulletId, enemyBulletWait, enemyBulletX, enemyBulletY,
          pc, display, ticks, rnd, budget, obs, fired,
          framebuffer, TEXT, wire, call>>

lcdVars == <<framebuffer, TEXT, wire, call>>

----------------------------------------------------------------------------
(* gamedefs.h *)
SCREEN_WIDTH == 128
SCREEN_HEIGHT == 64
ALIEN_WIDTH == 8
ALIEN_HEIGHT == 8
SHIP_WIDTH == 8
SHIP_HEIGHT == 8
SHIP_X_MOVE == 2
ENEMY_WAIT_BETWEEN_FIRE == 5
PLAYER_WAIT_BETWEEN_FIRE == 10
ROW1_ENEMY_COUNT == 5
ROW2_ENEMY_COUNT == 4
ENEMY_BULLET_SPEED == 1
SHIP_BULL_SPEED == 1
ALIEN_BETWEEN_OFFSET == 18
ALIEN_INCREASE_Y_BY == 4
MAX_PLAYER_BULLETS == 20
MAX_ENEMY_BULLETS == 20
ENEMY_COUNT == ROW1_ENEMY_COUNT + ROW2_ENEMY_COUNT
ALIVE == 7
START_DYING == ALIVE - 1
DEAD == 0

(* The fixed-point unit of the float fields: 1/Scale. *)
Scale == 10^6

(* ALIEN_INCREASE_SPEED_BY is 1.2f: the ratio SpeedNum / SpeedDen. *)
SpeedNum == 12
SpeedDen == 10

Aliens == 0 .. (ENEMY_COUNT - 1)
PSlots == 0 .. (MAX_PLAYER_BULLETS - 1)
ESlots == 0 .. (MAX_ENEMY_BULLETS - 1)

----------------------------------------------------------------------------
(* C arithmetic *)

(* Storing an int in a uint8_t. *)
U8(n) == n % 256

(* (int) of a float held in units of 1/Scale: truncation toward zero. *)
Trunc(v) == IF v >= 0 THEN v \div Scale ELSE -((-v) \div Scale)

(* v * -ALIEN_INCREASE_SPEED_BY, rounded to the nearest unit. *)
MulSpeed(v) ==
    LET m == IF v >= 0 THEN v ELSE -v
        p == (m * SpeedNum + (SpeedDen \div 2)) \div SpeedDen
    IN  IF v >= 0 THEN -p ELSE p

----------------------------------------------------------------------------
(* lcd.c.  The frame buffer is 1024 bytes, 8 pages of 128 columns; it is   *)
(* held as the set of its bits that are 1, bit b of byte n being the       *)
(* number 8*n + b.  A write outside the 1024 bytes is a number outside     *)
(* 0 .. 8191.                                                              *)

FRAME_BYTES == 1024

BitAddr(n, b) == 8 * n + b

(* The bits that are 1 in the byte v. *)
BitsOf == [ v \in 0 .. 255 |-> { b \in 0 .. 7 : (v \div 2^b) % 2 = 1 } ]

Bits(v) == BitsOf[v]

(* framebuffer[n] *)
ByteAt(fb, n) ==
    LET t(b) == IF BitAddr(n, b) \in fb THEN 2^b ELSE 0
    IN  t(0) + t(1) + t(2) + t(3) + t(4) + t(5) + t(6) + t(7)

(* framebuffer[n] = v *)
SetByte(fb, n, v) ==
    { a \in fb : a \div 8 # n } \cup { BitAddr(n, b) : b \in Bits(v) }

(* An lcdClear() that leaves the buffer as it is. *)
lcdClearNot(fb) == fb

(* void lcdClear(void), lines 248-255 *)
lcdClear(fb) == { a \in fb : a \div 8 \notin 0 .. (FRAME_BYTES - 1) }

(* An lcdDrawPixel() that stores y as it is given. *)
lcdDrawPixelNoFlip(fb, x, y) ==
    IF x > 127 \/ y > 63 THEN fb
    ELSE fb \cup { BitAddr((y \div 8) * 128 + x, y % 8) }

(* An lcdDrawPixel() without the test of its arguments. *)
lcdDrawPixelUnchecked(fb, x, y) ==
    LET f == U8(63 - y)
    IN  fb \cup { BitAddr((f \div 8) * 128 + x, f % 8) }

(* void lcdDrawPixel(uint8_t x, uint8_t y), lines 358-411 *)
lcdDrawPixel(fb, x, y) ==
    IF x > 127 \/ y > 63 THEN fb
    ELSE LET f == U8(63 - y)
         IN  fb \cup { BitAddr((f \div 8) * 128 + x, f % 8) }

(* The byte that lcdPrintText() writes for row i of the character c. *)
GlyphByte(table, c, i) ==
    IF 65 <= c /\ c <= 90 THEN table[(c - 65) * 8 + i]
    ELSE IF 97 <= c /\ c <= 122 THEN table[26 * 8 + (c - 97) * 8 + i]
    ELSE IF c = 46 THEN table[52 * 8 + i]
    ELSE 0

(* void lcdPrintText(char* text, uint8_t line), lines 431-468.  Row i of   *)
(* character j is stored in byte 1023 - 128*line - 8*j - i; the bytes are  *)
(* distinct, so each is assigned once and the order does not matter.       *)
lcdPrintText(fb, table, text, line) ==
    IF line > 7 \/ Len(text) > 16 THEN fb
    ELSE LET at(j, i) == 1023 - line * 128 - j * 8 - i
             steps == (0 .. (Len(text) - 1)) \X (0 .. 7)
             written == { at(p[1], p[2]) : p \in steps }
         IN  { a \in fb : a \div 8 \notin written }
             \cup UNION { { BitAddr(at(p[1], p[2]), b) :
                               b \in Bits(GlyphByte(table, text[p[1] + 1], p[2])) } :
                          p \in steps }

(* One loop of lcdRepaint(): the 512 bytes written with the controller     *)
(* `chip` selected, those of the frame buffer from byte 128*j + first on.  *)
(* page is the argument of LCD_GOTO_ROW, col the number of bytes written   *)
(* since LCD_GOTO_ORG.                                                     *)
RepaintLoop(fb, chip, first) ==
    LET used == { a \div 8 : a \in fb }     \* the bytes that are not 0
    IN  [ k \in 1 .. 512 |->
            LET j == (k - 1) \div 64
                i == (k - 1) % 64
                n == 128 * j + first + i
            IN  [ chip |-> chip, page |-> j, col |-> i,
                  data |-> IF n \in used THEN ByteAt(fb, n) ELSE 0 ] ]

(* An lcdRepaint() whose second loop reads the same bytes as the first. *)
lcdRepaintSameHalf(fb) == RepaintLoop(fb, 1, 0) \o RepaintLoop(fb, 2, 0)

(* void lcdRepaint(void), lines 257-338 *)
lcdRepaint(fb) == RepaintLoop(fb, 1, 0) \o RepaintLoop(fb, 2, 64)

----------------------------------------------------------------------------
(* main.c, the drawing. *)

(* lines 48-49 *)
alien8 == << 0, 24, 60, 126, 90, 255, 84, 170 >>
ship8 == << 0, 24, 60, 24, 153, 189, 255, 231 >>

(* lines 55-57, as character codes *)
GAME_OVER_STRING ==
    << 71, 97, 109, 101, 32, 79, 118, 101, 114, 32, 32, 32, 32, 32, 32, 32 >>
PRESS_ANY_STRING ==
    << 80, 114, 101, 115, 115, 32, 97, 110, 121, 32, 107, 101, 121, 32, 116, 111 >>
PLAY_AGAN_STRING ==
    << 112, 108, 97, 121, 32, 97, 103, 97, 105, 110, 32, 32, 32, 32, 32, 32 >>

(* static void draw8by8(char* bitmap, uint8_t x, uint8_t y), lines 117-140: *)
(* one lcdDrawPixel(x + i, y + j) for each bit i that is 1 in row j of the *)
(* bitmap.  Each call ORs its bit into the buffer, so the buffer after the *)
(* 64 steps is the buffer before them with the bits of all the calls.      *)
draw8by8(fb, bitmap, x, y) ==
    fb \cup UNION { UNION { lcdDrawPixel({}, U8(U8(x) + i), U8(U8(y) + j)) :
                                i \in Bits(bitmap[j + 1]) } : j \in 0 .. 7 }

(* #define drawBullet(x, y), line 69 *)
drawBullet(fb, x, y) == lcdDrawPixel(lcdDrawPixel(fb, x, y), x, U8(y + 1))

(* lines 587-588 and 635-636: the bullets of a pool are drawn where they   *)
(* are when the loop comes to them, in the order of the slots.  A slot is  *)
(* empty when either coordinate is 0.                                      *)
BulletCalls(bx, by) ==
    LET n == Cardinality(DOMAIN bx)
        all == [ k \in 1 .. n |-> [op |-> "drawBullet", x |-> bx[k - 1], y |-> by[k - 1]] ]
        active(c) == c.x # 0 /\ c.y # 0
    IN  SelectSeq(all, active)

----------------------------------------------------------------------------
(* The game data as one record, so that gameLoop() can be written as the   *)
(* composition of its steps.  The record also carries the locals of        *)
(* gameLoop (shipToFire), which gameOver() call ended it (over), and what  *)
(* the call did (the fields copied to obs).                                *)

NoObs ==
    [ left |-> FALSE, right |-> FALSE, fire |-> FALSE,
      sx0 |-> 0,                          \* shipX when the call began
      lives0 |-> 0,                       \* lives when the call began
      shot |-> FALSE,                     \* a player bullet was written
      shipDrawn |-> FALSE,                \* drawShip was called
      lifeLost |-> FALSE,                 \* the branch lives > 1 was taken
      ordinal |-> -1,                     \* rand() % enemyRemaining, or -1
      firers |-> << >>,                   \* aliens that wrote an enemy bullet, in order
      bounces |-> 0,                      \* times the edge branch was taken
      drawn |-> {},                       \* aliens drawn by the sweep
      ax |-> [k \in Aliens |-> 0],        \* the int x used for alien k
      ay |-> [k \in Aliens |-> 0],        \* the int y used for alien k
      hit |-> [k \in Aliens |-> {}],      \* <<slot, x, y>> cleared by alien k's scan
      gone |-> {},                        \* player slots cleared at the top of the screen
      shipHit |-> {},                     \* enemy slots cleared by the ship's box
      fell |-> {},                        \* enemy slots cleared at the bottom of the screen
      hitAt |-> 0,                        \* history: the call in which the ship went to START_DYING
      shotAt |-> 0,                       \* history: the call of a player shot less than 10 calls ago
      lossAt |-> 0,                       \* history: the call of a life loss less than 10 calls ago
      gap |-> 0,                          \* calls since that shot, when this call made a shot
      calls |-> << >>,                    \* the drawing calls made, in order
      blank |-> TRUE,                     \* the frame buffer was all 0 when the call began
      cleared |-> {},                     \* frame buffer bits that went from 1 to 0
      over |-> "none" ]                   \* which gameOver() call was made

Game ==
    [ lives |-> lives, shipAlive |-> shipAlive, shipX |-> shipX, shipY |-> shipY,
      enemyX |-> enemyX, enemyY |-> enemyY, enemyDX |-> enemyDX,
      enemyAlive |-> enemyAlive, enemyRemaining |-> enemyRemaining,
      currBulletId |-> currBulletId, bulletWait |-> bulletWait,
      bulletX |-> bulletX, bulletY |-> bulletY,
      currEnemyBulletId |-> currEnemyBulletId, enemyBulletWait |-> enemyBulletWait,
      enemyBulletX |-> enemyBulletX, enemyBulletY |-> enemyBulletY,
      shipToFire |-> -1, o |-> NoObs ]

(* The statics of main.c before main() runs: C sets them to zero. *)
ZeroGame ==
    [ lives |-> 0, shipAlive |-> 0, shipX |-> 0, shipY |-> 0,
      enemyX |-> 0, enemyY |-> 0, enemyDX |-> 0,
      enemyAlive |-> [i \in Aliens |-> 0], enemyRemaining |-> 0,
      currBulletId |-> 0, bulletWait |-> 0,
      bulletX |-> [i \in PSlots |-> 0], bulletY |-> [i \in PSlots |-> 0],
      currEnemyBulletId |-> 0, enemyBulletWait |-> 0,
      enemyBulletX |-> [i \in ESlots |-> 0], enemyBulletY |-> [i \in ESlots |-> 0],
      shipToFire |-> -1, o |-> NoObs ]

(* A reset that leaves the aliens' bullet pool as it is. *)
gameResetKeepBullets(s) ==
    [ s EXCEPT !.lives = 3,
               !.shipAlive = ALIVE,
               !.shipX = 60,
               !.shipY = 50,
               !.enemyX = 10 * Scale,
               !.enemyY = 0,
               !.enemyDX = Scale \div 2,
               !.enemyRemaining = ENEMY_COUNT,
               !.currBulletId = 0,
               !.bulletWait = 0,
               !.currEnemyBulletId = 0,
               !.enemyBulletWait = ENEMY_WAIT_BETWEEN_FIRE,
               !.enemyAlive = [i \in Aliens |-> ALIVE],
               !.bulletX = [i \in PSlots |-> 0],
               !.bulletY = [i \in PSlots |-> 0] ]

(* The drawing calls of gameLoop() and gameOver() change the frame buffer   *)
(* only, and the game never reads the frame buffer; the steps below record *)
(* the calls in o.calls, in the order in which the code makes them, and    *)
(* RunCalls executes them on the frame buffer.                             *)
DrawCall(s, c) == [ s EXCEPT !.o.calls = Append(@, c) ]

DrawCalls(s, cs) == [ s EXCEPT !.o.calls = @ \o cs ]

(* drawShip(x, y), drawAlien(x, y), drawBullet(x, y), lcdPrintText(text, line) *)
ShipCall(x, y) == [op |-> "draw8by8", bitmap |-> ship8, x |-> x, y |-> y]
AlienCall(x, y) == [op |-> "draw8by8", bitmap |-> alien8, x |-> x, y |-> y]
BulletCall(x, y) == [op |-> "drawBullet", x |-> x, y |-> y]
TextCall(text, line) == [op |-> "lcdPrintText", text |-> text, line |-> line]

(* The frame buffer after the call c. *)
RunCall(fb, table, c) ==
    IF c.op = "draw8by8" THEN draw8by8(fb, c.bitmap, c.x, c.y)
    ELSE IF c.op = "drawBullet" THEN drawBullet(fb, c.x, c.y)
    ELSE lcdPrintText(fb, table, c.text, c.line)

(* The frame buffer after the calls cs[i], cs[i+1], ..., with the bits     *)
(* that some call changed from 1 to 0.  draw8by8 and drawBullet only set   *)
(* bits, so a run of them is taken in one step: the buffer joined with the *)
(* bits each of them sets.                                                 *)
RECURSIVE RunCalls(_, _, _, _, _)
RunCalls(fb, cleared, table, cs, i) ==
    IF i > Len(cs) THEN [fb |-> fb, cleared |-> cleared]
    ELSE IF cs[i].op # "lcdPrintText"
    THEN LET texts == { m \in i .. Len(cs) : cs[m].op = "lcdPrintText" }
             n == IF texts = {} THEN Len(cs) + 1
                  ELSE CHOOSE m \in texts : \A q \in texts : m <= q
         IN  RunCalls(fb \cup UNION { RunCall({}, table, cs[m]) : m \in i .. (n - 1) },
                      cleared, table, cs, n)
    ELSE LET step(f) == RunCalls(f, cleared \cup (fb \ f), table, cs, i + 1)
         IN  step(RunCall(fb, table, cs[i]))

(* A gameOver() that shows its text and waits with the game data as the    *)
(* game left them.                                                         *)
gameOverNoReset(s, why) == [ s EXCEPT !.o.over = why ]

(* static void gameReset(void) *)
gameReset(s) ==
    [ s EXCEPT !.lives = 3,
               !.shipAlive = ALIVE,
               !.shipX = 60,
               !.shipY = 50,
               !.enemyX = 10 * Scale,
               !.enemyY = 0,
               !.enemyDX = Scale \div 2,
               !.enemyRemaining = ENEMY_COUNT,
               !.currBulletId = 0,
               !.bulletWait = 0,
               !.currEnemyBulletId = 0,
               !.enemyBulletWait = ENEMY_WAIT_BETWEEN_FIRE,
               !.enemyAlive = [i \in Aliens |-> ALIVE],
               !.bulletX = [i \in PSlots |-> 0],
               !.bulletY = [i \in PSlots |-> 0],
               !.enemyBulletX = [i \in ESlots |-> 0],
               !.enemyBulletY = [i \in ESlots |-> 0] ]

(* static void gameOver(void), up to its lcdRepaint(): the reset comes     *)
(* first; the text and the two waits are in the actions below.  `why`      *)
(* names the call site in gameLoop.                                        *)
gameOver(s, why) ==
    LET a == gameReset(s)
        b == DrawCalls(a, << TextCall(GAME_OVER_STRING, 0),
                              TextCall(PRESS_ANY_STRING, 1),
                              TextCall(PLAY_AGAN_STRING, 2) >>)
    IN  [ b EXCEPT !.o.over = why ]

(* The ship's move without the tests of the two ends of its range. *)
MoveShipNoClamp(s, left, right) ==
    LET a == IF left THEN [s EXCEPT !.shipX = U8(s.shipX - SHIP_X_MOVE)] ELSE s
        b == IF right THEN [a EXCEPT !.shipX = U8(a.shipX + SHIP_X_MOVE)] ELSE a
    IN  [b EXCEPT !.o.left = left, !.o.right = right, !.o.sx0 = s.shipX,
                 !.o.lives0 = s.lives]

(* gameLoop, lines 151-159: the ship follows the left and right buttons. *)
MoveShip(s, left, right) ==
    LET a == IF left /\ s.shipX > 0
             THEN [s EXCEPT !.shipX = U8(s.shipX - SHIP_X_MOVE)] ELSE s
        b == IF right /\ a.shipX < (SCREEN_WIDTH - SHIP_WIDTH)
             THEN [a EXCEPT !.shipX = U8(a.shipX + SHIP_X_MOVE)] ELSE a
    IN  [b EXCEPT !.o.left = left, !.o.right = right, !.o.sx0 = s.shipX,
                 !.o.lives0 = s.lives]

(* The player's shot without the test of the cooldown. *)
PlayerFireNoWait(s, fire) ==
    LET a == IF s.bulletWait > 0
             THEN [s EXCEPT !.bulletWait = U8(s.bulletWait - 1)] ELSE s
        b == IF fire
             THEN [a EXCEPT !.bulletX[a.currBulletId] = U8(a.shipX + SHIP_WIDTH \div 2),
                            !.bulletY[a.currBulletId] = a.shipY,
                            !.currBulletId = U8(a.currBulletId + 1) % MAX_PLAYER_BULLETS,
                            !.bulletWait = PLAYER_WAIT_BETWEEN_FIRE,
                            !.o.shot = TRUE]
             ELSE a
    IN  [b EXCEPT !.o.fire = fire]

(* The firing step with a wait one tick short. *)
PlayerFireShortWait(s, fire) ==
    LET a == IF s.bulletWait > 0
             THEN [s EXCEPT !.bulletWait = U8(s.bulletWait - 1)] ELSE s
        b == IF fire /\ a.bulletWait = 0
             THEN [a EXCEPT !.bulletX[a.currBulletId] = U8(a.shipX + SHIP_WIDTH \div 2),
                            !.bulletY[a.currBulletId] = a.shipY,
                            !.currBulletId = U8(a.currBulletId + 1) % MAX_PLAYER_BULLETS,
                            !.bulletWait = PLAYER_WAIT_BETWEEN_FIRE - 1,
                            !.o.shot = TRUE]
             ELSE a
    IN  [b EXCEPT !.o.fire = fire]

(* gameLoop, lines 163-200: the player's cooldown and shot. *)
PlayerFire(s, fire) ==
    LET a == IF s.bulletWait > 0
             THEN [s EXCEPT !.bulletWait = U8(s.bulletWait - 1)] ELSE s
        b == IF fire /\ a.bulletWait = 0
             THEN [a EXCEPT !.bulletX[a.currBulletId] = U8(a.shipX + SHIP_WIDTH \div 2),
                            !.bulletY[a.currBulletId] = a.shipY,
                            !.currBulletId = U8(a.currBulletId + 1) % MAX_PLAYER_BULLETS,
                            !.bulletWait = PLAYER_WAIT_BETWEEN_FIRE,
                            !.o.shot = TRUE]
             ELSE a
    IN  [b EXCEPT !.o.fire = fire]

(* The ship step with a life loss that leaves the two cooldowns alone. *)
ShipLifeKeepWait(s) ==
    LET a == IF s.shipAlive % 2 = 1
             THEN DrawCall([s EXCEPT !.o.shipDrawn = TRUE], ShipCall(s.shipX, s.shipY))
             ELSE s
        b == IF a.shipAlive > 0 /\ a.shipAlive < ALIVE
             THEN [a EXCEPT !.shipAlive = U8(a.shipAlive - 1)] ELSE a
    IN  IF b.shipAlive = 0
        THEN IF b.lives > 1
             THEN [b EXCEPT !.lives = U8(b.lives - 1),
                            !.shipAlive = ALIVE,
                            !.o.lifeLost = TRUE]
             ELSE gameOver(b, "lives")
        ELSE b

(* The ship step with the countdown taken before the draw test. *)
ShipLifeDrawLate(s) ==
    LET a == IF s.shipAlive > 0 /\ s.shipAlive < ALIVE
             THEN [s EXCEPT !.shipAlive = U8(s.shipAlive - 1)] ELSE s
        b == IF a.shipAlive % 2 = 1
             THEN DrawCall([a EXCEPT !.o.shipDrawn = TRUE], ShipCall(a.shipX, a.shipY))
             ELSE a
    IN  IF b.shipAlive = 0
        THEN IF b.lives > 1
             THEN [b EXCEPT !.lives = U8(b.lives - 1),
                            !.shipAlive = ALIVE,
                            !.bulletWait = 0,
                            !.enemyBulletWait = ENEMY_WAIT_BETWEEN_FIRE,
                            !.o.lifeLost = TRUE]
             ELSE gameOver(b, "lives")
        ELSE b

(* The ship step with a life loss that also takes the last life. *)
ShipLifeToZero(s) ==
    LET a == IF s.shipAlive % 2 = 1
             THEN DrawCall([s EXCEPT !.o.shipDrawn = TRUE], ShipCall(s.shipX, s.shipY))
             ELSE s
        b == IF a.shipAlive > 0 /\ a.shipAlive < ALIVE
             THEN [a EXCEPT !.shipAlive = U8(a.shipAlive - 1)] ELSE a
    IN  IF b.shipAlive = 0
        THEN IF b.lives > 0
             THEN [b EXCEPT !.lives = U8(b.lives - 1),
                            !.shipAlive = ALIVE,
                            !.bulletWait = 0,
                            !.enemyBulletWait = ENEMY_WAIT_BETWEEN_FIRE,
                            !.o.lifeLost = TRUE]
             ELSE gameOver(b, "lives")
        ELSE b

(* gameLoop, lines 220-269: the ship's flash, its countdown, and the end   *)
(* of the countdown: a life lost, or gameOver() and return.                *)
ShipLife(s) ==
    LET a == IF s.shipAlive % 2 = 1
             THEN DrawCall([s EXCEPT !.o.shipDrawn = TRUE], ShipCall(s.shipX, s.shipY))
             ELSE s
        b == IF a.shipAlive > 0 /\ a.shipAlive < ALIVE
             THEN [a EXCEPT !.shipAlive = U8(a.shipAlive - 1)] ELSE a
    IN  IF b.shipAlive = 0
        THEN IF b.lives > 1
             THEN [b EXCEPT !.lives = U8(b.lives - 1),
                            !.shipAlive = ALIVE,
                            !.bulletWait = 0,
                            !.enemyBulletWait = ENEMY_WAIT_BETWEEN_FIRE,
                            !.o.lifeLost = TRUE]
             ELSE gameOver(b, "lives")
        ELSE b

(* A win check that tests enemyRemaining < 0, which no uint8_t satisfies. *)
WinCheckNever(s) == IF s.enemyRemaining < 0 THEN gameOver(s, "win") ELSE s

(* gameLoop, lines 278-282: the player has won. *)
WinCheck(s) == IF s.enemyRemaining <= 0 THEN gameOver(s, "win") ELSE s

(* The aliens' cooldown with the test for 0 made before the decrement. *)
EnemyCooldownLate(s, r) ==
    IF s.enemyBulletWait = 0 /\ s.enemyRemaining > 0
    THEN [s EXCEPT !.shipToFire = r % s.enemyRemaining,
                   !.enemyBulletWait = ENEMY_WAIT_BETWEEN_FIRE,
                   !.o.ordinal = r % s.enemyRemaining]
    ELSE IF s.enemyBulletWait > 0
         THEN [s EXCEPT !.enemyBulletWait = U8(s.enemyBulletWait - 1)]
         ELSE s

(* gameLoop, lines 319-325: the aliens' cooldown and the choice of firer.  *)
(* r is the value rand() returns if it is called.                          *)
EnemyCooldown(s, r) ==
    IF s.enemyBulletWait > 0
    THEN LET a == [s EXCEPT !.enemyBulletWait = U8(s.enemyBulletWait - 1)]
         IN  IF a.enemyBulletWait = 0 /\ a.enemyRemaining > 0
             THEN [a EXCEPT !.shipToFire = r % a.enemyRemaining,
                            !.enemyBulletWait = ENEMY_WAIT_BETWEEN_FIRE,
                            !.o.ordinal = r % a.enemyRemaining]
             ELSE a
    ELSE s

----------------------------------------------------------------------------
(* The alien sweep, gameLoop lines 344-561.  The two tiled loops have the  *)
(* same body; they differ in the slot k and in the place (x, y).           *)

(* The place of alien k with the second row indexed by k itself. *)
AlienXYRowIndex(s, k) ==
    IF k < ROW1_ENEMY_COUNT
    THEN [ x |-> Trunc(s.enemyX + (ALIEN_BETWEEN_OFFSET * k) * Scale),
           y |-> Trunc(s.enemyY + 0) ]
    ELSE [ x |-> Trunc(s.enemyX + 9 * Scale + (ALIEN_BETWEEN_OFFSET * k) * Scale),
           y |-> Trunc(s.enemyY + ALIEN_HEIGHT * Scale) ]

(* lines 351-352 and 522-523: the int place of alien k. *)
AlienXY(s, k) ==
    IF k < ROW1_ENEMY_COUNT
    THEN [ x |-> Trunc(s.enemyX + (ALIEN_BETWEEN_OFFSET * k) * Scale),
           y |-> Trunc(s.enemyY + 0) ]
    ELSE [ x |-> Trunc(s.enemyX + 9 * Scale
                       + (ALIEN_BETWEEN_OFFSET * (k - ROW1_ENEMY_COUNT)) * Scale),
           y |-> Trunc(s.enemyY + ALIEN_HEIGHT * Scale) ]

(* The box test with the far edges left out. *)
InAlienBoxStrict(x, y, bx, by) ==
    /\ x <= bx /\ bx < x + ALIEN_WIDTH
    /\ y <= by /\ by < y + ALIEN_HEIGHT

(* lines 470-471 and 547-548: the test of one player slot against the box. *)
InAlienBox(x, y, bx, by) ==
    /\ x <= bx /\ bx <= x + ALIEN_WIDTH
    /\ y <= by /\ by <= y + ALIEN_HEIGHT

(* A scan that stops at the first slot that passes the test. *)
AlienHitsFirst(s, x, y) ==
    LET m == { j \in PSlots : x <= s.bulletX[j] /\ s.bulletX[j] <= x + ALIEN_WIDTH
                               /\ y <= s.bulletY[j] /\ s.bulletY[j] <= y + ALIEN_HEIGHT }
    IN  IF m = {} THEN {} ELSE { CHOOSE j \in m : \A i \in m : j <= i }

(* lines 459-491 and 546-552: the scan of the player's pool.  Each         *)
(* iteration reads and writes slot j alone, and there is no break, so the  *)
(* loop clears exactly the slots that pass the test.                       *)
AlienHits(s, x, y) ==
    { j \in PSlots : InAlienBox(x, y, s.bulletX[j], s.bulletY[j]) }

(* The alien's shot with a cursor that stays where it is. *)
AlienFireSameSlot(s, k, x, y) ==
    LET a == [s EXCEPT !.shipToFire = s.shipToFire - 1]
    IN  IF s.shipToFire = 0
        THEN [a EXCEPT !.enemyBulletY[s.currEnemyBulletId] = U8(y + ALIEN_HEIGHT),
                       !.enemyBulletX[s.currEnemyBulletId] = U8(x + ALIEN_WIDTH \div 2),
                       !.enemyBulletWait = ENEMY_WAIT_BETWEEN_FIRE,
                       !.o.firers = Append(s.o.firers, k)]
        ELSE a

(* The alien's shot with a cursor that is never wrapped. *)
AlienFireNoWrap(s, k, x, y) ==
    LET a == [s EXCEPT !.shipToFire = s.shipToFire - 1]
    IN  IF s.shipToFire = 0
        THEN [a EXCEPT !.enemyBulletY[s.currEnemyBulletId] = U8(y + ALIEN_HEIGHT),
                       !.enemyBulletX[s.currEnemyBulletId] = U8(x + ALIEN_WIDTH \div 2),
                       !.currEnemyBulletId = U8(s.currEnemyBulletId + 1),
                       !.enemyBulletWait = ENEMY_WAIT_BETWEEN_FIRE,
                       !.o.firers = Append(s.o.firers, k)]
        ELSE a

(* lines 373-399 and 527-534: the chosen alien writes an enemy bullet. *)
AlienFire(s, k, x, y) ==
    LET a == [s EXCEPT !.shipToFire = s.shipToFire - 1]
    IN  IF s.shipToFire = 0
        THEN [a EXCEPT !.enemyBulletY[s.currEnemyBulletId] = U8(y + ALIEN_HEIGHT),
                       !.enemyBulletX[s.currEnemyBulletId] = U8(x + ALIEN_WIDTH \div 2),
                       !.currEnemyBulletId = U8(s.currEnemyBulletId + 1) % MAX_ENEMY_BULLETS,
                       !.enemyBulletWait = ENEMY_WAIT_BETWEEN_FIRE,
                       !.o.firers = Append(s.o.firers, k)]
        ELSE a

(* The edge test with x < 0 for the left edge. *)
EdgeBounceStrict(s, x) ==
    IF x < 0 \/ (x + ALIEN_WIDTH) >= SCREEN_WIDTH
    THEN [s EXCEPT !.enemyDX = MulSpeed(s.enemyDX),
                   !.enemyY = s.enemyY + ALIEN_INCREASE_Y_BY * Scale,
                   !.o.bounces = s.o.bounces + 1]
    ELSE s

(* The turn at an edge without the step down. *)
EdgeBounceLevel(s, x) ==
    IF x <= 0 \/ (x + ALIEN_WIDTH) >= SCREEN_WIDTH
    THEN [s EXCEPT !.enemyDX = MulSpeed(s.enemyDX),
                   !.o.bounces = s.o.bounces + 1]
    ELSE s

(* lines 408-425 and 536-539: an alien at a screen edge turns the          *)
(* formation round, speeds it up and lowers it.                            *)
EdgeBounce(s, x) ==
    IF x <= 0 \/ (x + ALIEN_WIDTH) >= SCREEN_WIDTH
    THEN [s EXCEPT !.enemyDX = MulSpeed(s.enemyDX),
                   !.enemyY = s.enemyY + ALIEN_INCREASE_Y_BY * Scale,
                   !.o.bounces = s.o.bounces + 1]
    ELSE s

(* The countdown of a dying alien without the count of the dead. *)
AlienDyingNoCount(s, k) ==
    IF s.enemyAlive[k] > 0 /\ s.enemyAlive[k] < ALIVE
    THEN [s EXCEPT !.enemyAlive[k] = U8(s.enemyAlive[k] - 1)]
    ELSE s

(* lines 501-506 and 555-560: the countdown of a dying alien. *)
AlienDying(s, k) ==
    IF s.enemyAlive[k] > 0 /\ s.enemyAlive[k] < ALIVE
    THEN LET a == [s EXCEPT !.enemyAlive[k] = U8(s.enemyAlive[k] - 1)]
         IN  IF a.enemyAlive[k] = 0
             THEN [a EXCEPT !.enemyRemaining = U8(a.enemyRemaining - 1)]
             ELSE a
    ELSE s

(* The sweep step with the ground test one row late. *)
AlienStepGroundLate(s, k) ==
    IF s.enemyAlive[k] % 2 = 1
    THEN LET p == AlienXY(s, k)
             a == DrawCall([s EXCEPT !.o.drawn = s.o.drawn \cup {k},
                                     !.o.ax[k] = p.x, !.o.ay[k] = p.y],
                           AlienCall(p.x, p.y))
             b == AlienFire(a, k, p.x, p.y)
             c == EdgeBounce(b, p.x)
         IN  IF p.y + ALIEN_HEIGHT > SCREEN_HEIGHT
             THEN gameOver(c, "ground")
             ELSE LET h == AlienHits(c, p.x, p.y)
                      d == IF h = {} THEN c
                           ELSE [c EXCEPT !.enemyAlive[k] = START_DYING,
                                          !.bulletX = [j \in PSlots |->
                                                IF j \in h THEN 0 ELSE c.bulletX[j]],
                                          !.bulletY = [j \in PSlots |->
                                                IF j \in h THEN 0 ELSE c.bulletY[j]],
                                          !.o.hit[k] =
                                              { <<j, c.bulletX[j], c.bulletY[j]>> : j \in h }]
                  IN  AlienDying(d, k)
    ELSE AlienDying(s, k)

(* One iteration of the sweep, for alien k (lines 350-506, 521-560). *)
AlienStep(s, k) ==
    IF s.enemyAlive[k] % 2 = 1
    THEN LET p == AlienXY(s, k)
             a == DrawCall([s EXCEPT !.o.drawn = s.o.drawn \cup {k},
                                     !.o.ax[k] = p.x, !.o.ay[k] = p.y],
                           AlienCall(p.x, p.y))
             b == AlienFire(a, k, p.x, p.y)
             c == EdgeBounce(b, p.x)
         IN  IF p.y + ALIEN_HEIGHT >= SCREEN_HEIGHT
             THEN gameOver(c, "ground")
             ELSE LET h == AlienHits(c, p.x, p.y)
                      d == IF h = {} THEN c
                           ELSE [c EXCEPT !.enemyAlive[k] = START_DYING,
                                          !.bulletX = [j \in PSlots |->
                                                IF j \in h THEN 0 ELSE c.bulletX[j]],
                                          !.bulletY = [j \in PSlots |->
                                                IF j \in h THEN 0 ELSE c.bulletY[j]],
                                          !.o.hit[k] =
                                              { <<j, c.bulletX[j], c.bulletY[j]>> : j \in h }]
                  IN  AlienDying(d, k)
    ELSE AlienDying(s, k)

(* The two loops: aliens 0..8 in order, left at once by a gameOver(). *)
RECURSIVE Sweep(_, _)
Sweep(s, k) ==
    IF k = ENEMY_COUNT \/ s.o.over # "none" THEN s
    ELSE Sweep(AlienStep(s, k), k + 1)

(* A formation that stays where it is. *)
MoveFormationStill(s) == s

(* line 566 *)
MoveFormation(s) == [s EXCEPT !.enemyX = s.enemyX + s.enemyDX]

(* The move of a player bullet that takes it away one row early. *)
PlayerBulletYEarly(x, y) ==
    IF x # 0 /\ y # 0
    THEN LET n == U8(y - SHIP_BULL_SPEED)
         IN  IF n <= 1 \/ n > SCREEN_HEIGHT THEN 0 ELSE n
    ELSE y

(* lines 583-619: the player's bullets go up. *)
PlayerBulletY(x, y) ==
    IF x # 0 /\ y # 0
    THEN LET n == U8(y - SHIP_BULL_SPEED)
         IN  IF n = 0 \/ n > SCREEN_HEIGHT THEN 0 ELSE n
    ELSE y

PlayerBulletX(x, y) ==
    IF x # 0 /\ y # 0 /\ PlayerBulletY(x, y) = 0 THEN 0 ELSE x

AdvancePlayerBullets(s) ==
    [DrawCalls(s, BulletCalls(s.bulletX, s.bulletY))
       EXCEPT !.bulletX = [i \in PSlots |-> PlayerBulletX(s.bulletX[i], s.bulletY[i])],
              !.bulletY = [i \in PSlots |-> PlayerBulletY(s.bulletX[i], s.bulletY[i])],
              !.o.gone = { i \in PSlots : /\ s.bulletX[i] # 0 /\ s.bulletY[i] # 0
                                          /\ PlayerBulletY(s.bulletX[i], s.bulletY[i]) = 0 }]

(* lines 640-641: the test of one enemy slot against the ship's box. *)
InShipBox(s, bx, by) ==
    /\ s.shipX <= bx /\ bx <= s.shipX + SHIP_WIDTH
    /\ s.shipY <= by /\ by <= s.shipY + SHIP_HEIGHT

(* The enemy bullets' loop with a hit that restarts the ship's countdown. *)
AdvanceEnemyBulletsRestart(s) ==
    LET active(i) == s.enemyBulletX[i] # 0 /\ s.enemyBulletY[i] # 0
        moved(i) == U8(s.enemyBulletY[i] + ENEMY_BULLET_SPEED)
        hit(i) == /\ active(i)
                  /\ s.shipX <= s.enemyBulletX[i] /\ s.enemyBulletX[i] <= s.shipX + SHIP_WIDTH
                  /\ s.shipY <= moved(i) /\ moved(i) <= s.shipY + SHIP_HEIGHT
        gone(i) == active(i) /\ (hit(i) \/ moved(i) >= SCREEN_HEIGHT)
        hits == { i \in ESlots : hit(i) }
    IN  [s EXCEPT !.enemyBulletX = [i \in ESlots |->
                        IF gone(i) THEN 0 ELSE s.enemyBulletX[i]],
                  !.enemyBulletY = [i \in ESlots |->
                        IF gone(i) THEN 0
                        ELSE IF active(i) THEN moved(i)
                        ELSE s.enemyBulletY[i]],
                  !.shipAlive = IF hits # {} THEN START_DYING ELSE s.shipAlive,
                  !.o.shipHit = hits,
                  !.o.fell = { i \in ESlots : gone(i) /\ ~hit(i) }]

(* lines 634-657: the enemy bullets go down and may hit the ship.  Slot i  *)
(* is moved, tested against the ship and against the bottom of the screen. *)
EnemyActive(s, i) == s.enemyBulletX[i] # 0 /\ s.enemyBulletY[i] # 0

EnemyMovedY(s, i) == U8(s.enemyBulletY[i] + ENEMY_BULLET_SPEED)

EnemyHitsShip(s, i) ==
    EnemyActive(s, i) /\ InShipBox(s, s.enemyBulletX[i], EnemyMovedY(s, i))

(* The bottom test of the enemy loop written as the player loop's top test. *)
EnemyGoneLate(s, i) ==
    EnemyActive(s, i) /\ (EnemyHitsShip(s, i) \/ EnemyMovedY(s, i) > SCREEN_HEIGHT)

EnemyGone(s, i) ==
    EnemyActive(s, i) /\ (EnemyHitsShip(s, i) \/ EnemyMovedY(s, i) >= SCREEN_HEIGHT)

AdvanceEnemyBullets(s) ==
    LET hits == { i \in ESlots : EnemyHitsShip(s, i) }
    IN  [DrawCalls(s, BulletCalls(s.enemyBulletX, s.enemyBulletY))
           EXCEPT !.enemyBulletX = [i \in ESlots |->
                        IF EnemyGone(s, i) THEN 0 ELSE s.enemyBulletX[i]],
                  !.enemyBulletY = [i \in ESlots |->
                        IF EnemyGone(s, i) THEN 0
                        ELSE IF EnemyActive(s, i) THEN EnemyMovedY(s, i)
                        ELSE s.enemyBulletY[i]],
                  !.shipAlive = IF hits # {} /\ s.shipAlive = ALIVE
                                THEN START_DYING ELSE s.shipAlive,
                  !.o.shipHit = hits,
                  !.o.fell = { i \in ESlots : EnemyGone(s, i) /\ ~EnemyHitsShip(s, i) }]

(* static void gameLoop(void): its steps in order; a step that called      *)
(* gameOver() returns, so the later steps are skipped.                     *)
Then(s, t) == IF s.o.over # "none" THEN s ELSE t

gameLoop(s, left, right, fire, r) ==
    LET a == ShipLife(PlayerFire(MoveShip(s, left, right), fire))
        b == Then(a, WinCheck(a))
        c == Then(b, Sweep(EnemyCooldown(b, r), 0))
    IN  Then(c, AdvanceEnemyBullets(AdvancePlayerBullets(MoveFormation(c))))

----------------------------------------------------------------------------
(* The environment: the three buttons, the key poll of gameOver() and      *)
(* rand().  The model follows the program for a bounded number of calls of *)
(* gameLoop and lets the buttons be down in bounded windows of calls only, *)
(* or holds the fire button down throughout (budget.hold), or moves the    *)
(* ship to and fro between two places (budget.patrol), or leaves the left  *)
(* and right buttons free in the first calls (budget.roam);                *)
(* every call of rand() in a run returns the same value rnd, which the     *)
(* initial state draws.  The record `budget` holds these bounds and what   *)
(* is left of them.                                                        *)

(* The residues of rand() that matter to rand() % enemyRemaining. *)
RandValues == 0 .. (ENEMY_COUNT - 1)

(* The call of gameLoop that comes next, counted from 1. *)
Call == ticks + 1

(* The fire button is held down from the call budget.holdFrom on. *)
Held == budget.hold /\ Call >= budget.holdFrom

MayFire == budget.shots > 0 /\ Call >= budget.fireFrom /\ Call <= budget.fireUntil

MayMove ==
    \/ budget.roam /\ Call <= budget.moveUntil
    \/ budget.moves > 0 /\ Call >= budget.moveFrom /\ Call <= budget.moveUntil

(* The patrol: the player turns the ship round at budget.lo and budget.hi  *)
(* and keeps the button of the current direction down (0 left, 1 right).   *)
PatrolDir ==
    IF shipX <= budget.lo THEN 1 ELSE IF shipX >= budget.hi THEN 0 ELSE budget.dir

PatrolLeft == PatrolDir = 0 /\ shipX > budget.lo

PatrolRight == PatrolDir = 1 /\ shipX < budget.hi

(* main(), line 667: the game data after gameReset(). *)
InitGame ==
    LET s == gameReset(ZeroGame)
    IN  /\ lives = s.lives /\ shipAlive = s.shipAlive
        /\ shipX = s.shipX /\ shipY = s.shipY
        /\ enemyX = s.enemyX /\ enemyY = s.enemyY /\ enemyDX = s.enemyDX
        /\ enemyAlive = s.enemyAlive /\ enemyRemaining = s.enemyRemaining
        /\ currBulletId = s.currBulletId /\ bulletWait = s.bulletWait
        /\ bulletX = s.bulletX /\ bulletY = s.bulletY
        /\ currEnemyBulletId = s.currEnemyBulletId
        /\ enemyBulletWait = s.enemyBulletWait
        /\ enemyBulletX = s.enemyBulletX /\ enemyBulletY = s.enemyBulletY

(* The glyph table TEXT is defined in data.c, which is not among the       *)
(* sources: 53 characters of 8 bytes (lcd.h, lines 4-15).  The model takes *)
(* a table whose bytes differ from place to place and have bits of both    *)
(* values; the characters that are not letters are written as 0 whatever   *)
(* the table holds.                                                        *)
GlyphIndex == 0 .. (53 * 8 - 1)

MixedFont == [n \in GlyphIndex |-> (37 * n + 11) % 256]

(* No lcd.c function was called on its own. *)
NoCall == [op |-> "none"]

(* main(), lines 660-667, with the environment e to come. *)
InitWith(seeds, e) ==
    /\ InitGame
    /\ pc = "play"
    /\ display = "blank"
    /\ ticks = 0
    /\ rnd \in seeds
    /\ budget = e
    /\ obs = NoObs
    /\ fired = [j \in PSlots |-> 0]
    /\ framebuffer = {}
    /\ TEXT = MixedFont
    /\ wire = << >>
    /\ call = NoCall

(* The game data after a step that leaves them as in record s. *)
SetGame(s) ==
    /\ lives' = s.lives /\ shipAlive' = s.shipAlive
    /\ shipX' = s.shipX /\ shipY' = s.shipY
    /\ enemyX' = s.enemyX /\ enemyY' = s.enemyY /\ enemyDX' = s.enemyDX
    /\ enemyAlive' = s.enemyAlive /\ enemyRemaining' = s.enemyRemaining
    /\ currBulletId' = s.currBulletId /\ bulletWait' = s.bulletWait
    /\ bulletX' = s.bulletX /\ bulletY' = s.bulletY
    /\ currEnemyBulletId' = s.currEnemyBulletId
    /\ enemyBulletWait' = s.enemyBulletWait
    /\ enemyBulletX' = s.enemyBulletX /\ enemyBulletY' = s.enemyBulletY

(* main(), lines 669-687: one turn of the main loop, lcdClear(),           *)
(* gameLoop(), and, unless gameLoop() is held in gameOver(), lcdRepaint(). *)
(* A call number is kept as history while a shot in the next call would    *)
(* still be less than PLAYER_WAIT_BETWEEN_FIRE calls after it.             *)
Recent(c) == IF c > 0 /\ Call - c <= PLAYER_WAIT_BETWEEN_FIRE - 2 THEN c ELSE 0

GameLoop ==
    \E left, right, fire \in BOOLEAN :
        /\ pc = "play"
        /\ ticks < budget.ticks
        /\ budget.patrol => (left = PatrolLeft /\ right = PatrolRight)
        /\ (left \/ right) => (budget.patrol \/ MayMove)
        /\ Held => fire
        /\ fire => (Held \/ MayFire)
        /\ \E s \in {gameLoop(Game, left, right, fire, rnd)},
              f0 \in {lcdClear(framebuffer)} :
             \E r \in {RunCalls(f0, {}, TEXT, s.o.calls, 1)} :
               /\ SetGame(s)
               /\ framebuffer' = r.fb
               /\ wire' = lcdRepaint(r.fb)
               /\ obs' = [s.o EXCEPT !.blank = (f0 = {}), !.cleared = r.cleared,
                                      !.hitAt = IF s.o.over # "none" THEN 0
                                                ELSE IF s.shipAlive = START_DYING /\ s.o.shipHit # {}
                                                THEN Call
                                                ELSE IF s.shipAlive = ALIVE THEN 0
                                                ELSE obs.hitAt,
                                      !.shotAt = IF s.o.over # "none" THEN 0
                                                 ELSE IF s.o.shot THEN Call
                                                 ELSE Recent(obs.shotAt),
                                      !.lossAt = IF s.o.over # "none" THEN 0
                                                 ELSE IF s.o.lifeLost THEN Call
                                                 ELSE Recent(obs.lossAt),
                                      !.gap = IF s.o.shot /\ obs.shotAt > 0
                                              THEN Call - obs.shotAt ELSE 0]
               /\ pc' = IF s.o.over # "none" THEN "waitRelease" ELSE "play"
               /\ display' = IF s.o.over # "none" THEN "gameover" ELSE "game"
               /\ fired' = [j \in PSlots |->
                               IF s.bulletX[j] = 0 /\ s.bulletY[j] = 0 THEN 0
                               ELSE IF s.o.shot /\ j = currBulletId THEN Call
                               ELSE fired[j]]
        /\ budget' = [budget EXCEPT
                        !.moves = @ - (IF (left \/ right) /\ ~budget.patrol /\ ~budget.roam
                                       THEN 1 ELSE 0),
                        !.dir = IF budget.patrol THEN PatrolDir ELSE @,
                        !.shots = @ - (IF fire /\ ~budget.hold THEN 1 ELSE 0)]
        /\ ticks' = ticks + 1
        /\ UNCHANGED <<rnd, TEXT, call>>

(* gameOver(), line 113: while( isAnyKeyDown()); *)
WaitRelease ==
    \E down \in BOOLEAN :
        /\ pc = "waitRelease"
        /\ pc' = IF down THEN "waitRelease" ELSE "waitPress"
        /\ UNCHANGED <<gameVars, display, ticks, rnd, budget, obs, fired, lcdVars>>

(* gameOver(), line 114: while(!isAnyKeyDown()); then gameLoop() returns   *)
(* and main() repaints the same frame buffer.                              *)
WaitPress ==
    \E down \in BOOLEAN :
        /\ pc = "waitPress"
        /\ pc' = IF down THEN "play" ELSE "waitPress"
        /\ wire' = IF down THEN lcdRepaint(framebuffer) ELSE wire
        /\ UNCHANGED <<gameVars, display, ticks, rnd, budget, obs, fired,
                       framebuffer, TEXT, call>>

Next == GameLoop \/ WaitRelease \/ WaitPress

----------------------------------------------------------------------------
(* The specifications.  Each one starts the program after gameReset() and  *)
(* differs in the bounds of the environment.                               *)

Env(n, shots, f1, f2, moves, m1, m2) ==
    [ticks |-> n, shots |-> shots, fireFrom |-> f1, fireUntil |-> f2,
     moves |-> moves, moveFrom |-> m1, moveUntil |-> m2, hold |-> FALSE,
     holdFrom |-> 1,
     patrol |-> FALSE, lo |-> 0, hi |-> 0, dir |-> 0, roam |-> FALSE]

(* Spec: rand() % n is 1 where it can be, the ship stays where it is, and  *)
(* the fire button is down in at most MaxShots of the calls FireFrom ..    *)
(* FireUntil.  The ship loses its third life in call 123 if no alien is    *)
(* shot.                                                                   *)
MaxTicks == 125
MaxShots == 2
FireFrom == 33
FireUntil == 62

Init == InitWith({1}, Env(MaxTicks, MaxShots, FireFrom, FireUntil, 0, 1, 1))

Spec == Init /\ [][Next]_vars

(* SpecQuick: rand() % n is 7 where it can be; the ship loses a life in    *)
(* call 44 and in call 54, and its last life in call 64 if it has moved    *)
(* two steps to the right.  The fire button may be down in calls           *)
(* QuickFrom .. QuickUntil, the left and right buttons in at most          *)
(* QuickMoves of the calls QuickMoveFrom .. QuickMoveUntil.                *)
QuickTicks == 80
QuickShots == 2
QuickFrom == 43
QuickUntil == 45
QuickMoves == 2
QuickMoveFrom == 47
QuickMoveUntil == 48

InitQuick ==
    InitWith({7}, Env(QuickTicks, QuickShots, QuickFrom, QuickUntil,
                      QuickMoves, QuickMoveFrom, QuickMoveUntil))

SpecQuick == InitQuick /\ [][Next]_vars

(* SpecHold: the fire button is held down in every call, the ship stays    *)
(* where it is and rand() returns any one value; the game runs until the   *)
(* aliens are on the ground, in call 514, and a little into the next game. *)
HoldTicks == 520

InitHold == InitWith(RandValues, [Env(HoldTicks, 0, 1, 1, 0, 1, 1) EXCEPT !.hold = TRUE])

SpecHold == InitHold /\ [][Next]_vars

(* SpecPatrol: the fire button is held down and the ship patrols between   *)
(* x = PatrolLo and x = PatrolHi, to the left first; rand() returns any    *)
(* one value.  For some of these values the player shoots all nine aliens  *)
(* in 117 to 125 calls.                                                    *)
PatrolTicks == 260
PatrolLo == 32
PatrolHi == 116

InitPatrol ==
    InitWith(RandValues, [Env(PatrolTicks, 0, 1, 1, 0, 1, 1) EXCEPT
                            !.hold = TRUE, !.patrol = TRUE,
                            !.lo = PatrolLo, !.hi = PatrolHi])

SpecPatrol == InitPatrol /\ [][Next]_vars

(* SpecMove: the left and right buttons are free in the first RoamUntil    *)
(* calls, the fire button is never down, and rand() % n is 1 where it can  *)
(* be.  The ship can reach both ends of its range, and loses its third     *)
(* life in call 123 if it never moves.                                     *)
RoamUntil == 32

InitMove == InitWith({1}, [Env(MaxTicks, 0, 1, 1, 0, 1, RoamUntil) EXCEPT !.roam = TRUE])

SpecMove == InitMove /\ [][Next]_vars

(* SpecEdge: the ship goes to the left end of its range and stays there,   *)
(* the fire button is held down from call EdgeFrom on, and rand() % n is 3 *)
(* where it can be.  The ship loses lives in calls 230 and 236; from call  *)
(* 682 on the formation, at more than 2 pixels a tick, turns round at the  *)
(* left edge four times in five calls, and the aliens are on the ground in *)
(* call 688.                                                               *)
EdgeTicks == 695
EdgeFrom == 8

InitEdge ==
    InitWith({3}, [Env(EdgeTicks, 0, 1, 1, 0, 1, 1) EXCEPT
                     !.hold = TRUE, !.holdFrom = EdgeFrom,
                     !.patrol = TRUE, !.lo = 0, !.hi = 0])

SpecEdge == InitEdge /\ [][Next]_vars

(* SpecLive: main() calls gameLoop() for ever (line 669, while(1)), so a   *)
(* call that can be made is made: weak fairness of GameLoop.  The player   *)
(* either does nothing for the whole run, or goes to the left end and      *)
(* holds the fire button from call EdgeFrom on; rand() returns any one     *)
(* value.  With the idle player the round ends by the ship's last life (in *)
(* call 123 at the earliest) or on the ground (call 494); with the other   *)
(* on the ground (calls 419 and 688) or by a win (calls 850 and 852).  The *)
(* runs are cut after LiveStill and LiveEdge calls.                        *)
LiveStill == 500
LiveEdge == 860

LiveEnvs ==
    { Env(LiveStill, 0, 1, 1, 0, 1, 1),
      [Env(LiveEdge, 0, 1, 1, 0, 1, 1) EXCEPT
         !.hold = TRUE, !.holdFrom = EdgeFrom, !.patrol = TRUE] }

InitLive == \E e \in LiveEnvs : InitWith(RandValues, e)

(* A call of gameLoop() seen through pc and ticks alone.  GameLoop is the  *)
(* only action that changes ticks, and it can be taken whenever the game   *)
(* is in play and the run is not cut: some choice of buttons is always     *)
(* allowed.  So weak fairness of this step is weak fairness of GameLoop.   *)
Turn == pc = "play" /\ ticks < budget.ticks /\ ticks' = ticks + 1

SpecLive == InitLive /\ [][Next]_vars /\ WF_ticks(Turn)

(* The functions of lcd.c and the two drawing helpers of main.c called on  *)
(* their own: on a frame buffer that is empty or speckled, one call with   *)
(* arguments from the sets below, and then lcdRepaint().  lcdDrawPixel is  *)
(* given every point of the screen and 8-bit values beyond it; the helpers *)
(* are given places where x + i or y + j pass 127, 63 and 255.             *)
Speckled == { a \in 0 .. (8 * FRAME_BYTES - 1) : a % 37 = 0 }

Backgrounds == { {}, Speckled }

PixelXs == (0 .. 127) \cup {128, 129, 200, 254, 255}
PixelYs == (0 .. 63) \cup {64, 65, 128, 255}

ShapeXs == {0, 60, 124, 253}
ShapeYs == {0, 50, 60, 252}
BulletXs == {1, 127, 128}
BulletYs == {1, 62, 63, 64, 255}

(* The three strings of main.c and one of 17 characters. *)
Texts == { GAME_OVER_STRING, PRESS_ANY_STRING, PLAY_AGAN_STRING,
           Append(PRESS_ANY_STRING, 46) }
TextLines == {0, 1, 2, 7, 8}

InitLcd ==
    /\ InitGame
    /\ pc = "lcd"
    /\ display = "blank"
    /\ ticks = 0
    /\ rnd = 0
    /\ budget = [ticks |-> 0]
    /\ obs = NoObs
    /\ fired = [j \in PSlots |-> 0]
    /\ framebuffer \in Backgrounds
    /\ TEXT = MixedFont
    /\ wire = << >>
    /\ call = NoCall

(* The variables that the calls below leave alone. *)
LcdFrame == UNCHANGED <<gameVars, display, ticks, rnd, budget, obs, fired, TEXT>>

LcdDrawPixel ==
    \E x \in PixelXs, y \in PixelYs :
        /\ pc = "lcd"
        /\ framebuffer' = lcdDrawPixel(framebuffer, x, y)
        /\ call' = [op |-> "lcdDrawPixel", x |-> x, y |-> y]
        /\ pc' = "lcdEnd"
        /\ UNCHANGED wire
        /\ LcdFrame

LcdDraw8by8 ==
    \E bitmap \in {alien8, ship8}, x \in ShapeXs, y \in ShapeYs :
        /\ pc = "lcd"
        /\ framebuffer' = draw8by8(framebuffer, bitmap, x, y)
        /\ call' = [op |-> "draw8by8", bitmap |-> bitmap, x |-> x, y |-> y]
        /\ pc' = "lcdDrawn"
        /\ UNCHANGED wire
        /\ LcdFrame

LcdDrawBullet ==
    \E x \in BulletXs, y \in BulletYs :
        /\ pc = "lcd"
        /\ framebuffer' = drawBullet(framebuffer, x, y)
        /\ call' = [op |-> "drawBullet", x |-> x, y |-> y]
        /\ pc' = "lcdDrawn"
        /\ UNCHANGED wire
        /\ LcdFrame

LcdPrintText ==
    \E text \in Texts, line \in TextLines :
        /\ pc = "lcd"
        /\ framebuffer' = lcdPrintText(framebuffer, TEXT, text, line)
        /\ call' = [op |-> "lcdPrintText", text |-> text, line |-> line]
        /\ pc' = "lcdDrawn"
        /\ UNCHANGED wire
        /\ LcdFrame

LcdClear ==
    /\ pc = "lcd"
    /\ framebuffer' = lcdClear(framebuffer)
    /\ call' = [op |-> "lcdClear"]
    /\ pc' = "lcdDrawn"
    /\ UNCHANGED wire
    /\ LcdFrame

LcdRepaint ==
    /\ pc \in {"lcd", "lcdDrawn"}
    /\ wire' = lcdRepaint(framebuffer)
    /\ call' = [op |-> "lcdRepaint"]
    /\ pc' = "lcdEnd"
    /\ UNCHANGED framebuffer
    /\ LcdFrame

NextLcd ==
    \/ LcdDrawPixel \/ LcdDraw8by8 \/ LcdDrawBullet
    \/ LcdPrintText \/ LcdClear \/ LcdRepaint

SpecLcd == InitLcd /\ [][NextLcd]_vars


----------------------------------------------------------------------------
(* The properties.  Every state of the model is a tick boundary: the game  *)
(* data between two calls of gameLoop(), or inside the waits of gameOver().*)

(* The step is a call of gameLoop() that did not end in gameOver(). *)
PlainTick == pc = "play" /\ ticks' = ticks + 1 /\ obs'.over = "none"

(* The step is a call of gameLoop() that ended in gameOver(). *)
OverTick == pc = "play" /\ ticks' = ticks + 1 /\ obs'.over # "none"

AliveCount == Cardinality({ i \in Aliens : enemyAlive[i] > 0 })

(* C1: at every tick boundary enemyRemaining is the number of aliens whose *)
(* vitality is above 0, and a call of gameLoop() lowers it by exactly one  *)
(* for each alien whose vitality reaches 0 in that call.                   *)
C1_Remaining ==
    /\ [](enemyRemaining = AliveCount)
    /\ [][PlainTick => enemyRemaining' = enemyRemaining -
              Cardinality({ i \in Aliens : enemyAlive[i] > 0 /\ enemyAlive'[i] = 0 })]_vars

C1_Witness ==
    /\ pc = "play"
    /\ enemyRemaining = ENEMY_COUNT - 1
    /\ \E i \in Aliens : enemyAlive[i] = 0

(* C2 as stated: a vitality strictly between 0 and ALIVE, of the ship or   *)
(* of an alien, is strictly smaller at the next tick boundary, unless the  *)
(* game was reset or the ship lost a life in that tick.                    *)
C2_Original ==
    [][PlainTick =>
        /\ \A k \in Aliens :
              (enemyAlive[k] > 0 /\ enemyAlive[k] < ALIVE)
                  => enemyAlive'[k] < enemyAlive[k]
        /\ (shipAlive > 0 /\ shipAlive < ALIVE)
              => (shipAlive' < shipAlive \/ obs'.lifeLost)]_vars

(* C3 as stated: in one tick, for one alien, at most one player slot is    *)
(* set to (0, 0) because it was in that alien's box.                       *)
C3_Original == \A k \in Aliens : Cardinality(obs.hit[k]) <= 1

(* C3, amended: in one tick every player slot that lies in the box of a    *)
(* drawn alien is set to (0, 0), however many there are: no active slot is *)
(* left whose place before the bullets moved was in the box of an alien    *)
(* drawn in that tick.                                                     *)
C3_AllConsumed ==
    obs.over = "none" =>
        \A k \in obs.drawn :
            /\ \A h \in obs.hit[k] : bulletX[h[1]] = 0 /\ bulletY[h[1]] = 0
            /\ \A j \in PSlots :
                  (bulletX[j] # 0 /\ bulletY[j] # 0) =>
                      ~ /\ obs.ax[k] <= bulletX[j]
                        /\ bulletX[j] <= obs.ax[k] + ALIEN_WIDTH
                        /\ obs.ay[k] <= bulletY[j] + SHIP_BULL_SPEED
                        /\ bulletY[j] + SHIP_BULL_SPEED <= obs.ay[k] + ALIEN_HEIGHT

C3_Witness == \E k \in Aliens : Cardinality(obs.hit[k]) = 2

(* C4: both pools are ring buffers.  A shot writes the slot at the cursor  *)
(* and the cursor becomes (cursor + 1) mod 20; a tick without a shot       *)
(* leaves the cursor alone; both cursors are always in 0 .. 19.  The slot  *)
(* written holds the new bullet, moved once, at the end of the tick,       *)
(* or (0, 0) if the bullet was consumed in the tick it was fired; an enemy *)
(* bullet written with x = 0 is not moved.                                 *)
C4_Ring ==
    /\ [](currBulletId \in PSlots /\ currEnemyBulletId \in ESlots)
    /\ [][PlainTick =>
          /\ currBulletId' =
                (currBulletId + (IF obs'.shot THEN 1 ELSE 0)) % MAX_PLAYER_BULLETS
          /\ obs'.shot =>
                <<bulletX'[currBulletId], bulletY'[currBulletId]>> \in
                    { <<(shipX' + 4) % 256, shipY' - SHIP_BULL_SPEED>>, <<0, 0>> }
          /\ currEnemyBulletId' =
                (currEnemyBulletId + Len(obs'.firers)) % MAX_ENEMY_BULLETS
          /\ \A n \in 1 .. Len(obs'.firers) :
                LET k == obs'.firers[n]
                    e == (currEnemyBulletId + n - 1) % MAX_ENEMY_BULLETS
                IN  IF (obs'.ax[k] + 4) % 256 = 0
                    THEN <<enemyBulletX'[e], enemyBulletY'[e]>> =
                            <<0, obs'.ay[k] + ALIEN_HEIGHT>>
                    ELSE <<enemyBulletX'[e], enemyBulletY'[e]>> \in
                            { <<(obs'.ax[k] + 4) % 256,
                                obs'.ay[k] + ALIEN_HEIGHT + ENEMY_BULLET_SPEED>>,
                              <<0, 0>> }]_vars

(* The player's 21st shot or a later one has just been written to slot 0,  *)
(* and the cursor is 1 again.                                              *)
C4_Witness ==
    /\ ticks > PLAYER_WAIT_BETWEEN_FIRE * MAX_PLAYER_BULLETS
    /\ obs.shot
    /\ currBulletId = 1
    /\ fired[0] = ticks
    /\ bulletX[0] = 64 /\ bulletY[0] = 49

(* C5: for an alien drawn at the integer place (x, y) and a player slot at *)
(* (bx, by) when the alien scans the pool, the slot is cleared by that     *)
(* alien if and only if x <= bx <= x + 8 and y <= by <= y + 8; the slot is *)
(* then (0, 0) and the alien, set to START_DYING and counted down once in  *)
(* the same iteration, ends the tick at START_DYING - 1.                   *)
C5_Box ==
    [][PlainTick =>
        \A k \in obs'.drawn, j \in PSlots :
            LET new == obs'.shot /\ j = currBulletId
                taken == \E i \in Aliens : i < k /\ \E h \in obs'.hit[i] : h[1] = j
                bx == IF taken THEN 0
                      ELSE IF new THEN (shipX' + 4) % 256 ELSE bulletX[j]
                by == IF taken THEN 0
                      ELSE IF new THEN shipY' ELSE bulletY[j]
                x == obs'.ax[k]
                y == obs'.ay[k]
                inside == x <= bx /\ bx <= x + 8 /\ y <= by /\ by <= y + 8
                cleared == <<j, bx, by>> \in obs'.hit[k]
            IN  /\ inside <=> cleared
                /\ cleared => /\ bulletX'[j] = 0 /\ bulletY'[j] = 0
                              /\ enemyAlive'[k] = START_DYING - 1]_vars

(* A bullet at the corner (x + 8, y + 8) of an alien's box was a hit. *)
C5_Witness ==
    \E k \in Aliens : \E h \in obs.hit[k] :
        h[2] = obs.ax[k] + 8 /\ h[3] = obs.ay[k] + 8

C7_Bounce ==
    [][PlainTick =>
        LET touch == \E k \in obs'.drawn :
                        obs'.ax[k] <= 0 \/ obs'.ax[k] + 8 >= 128
        IN  /\ touch => /\ SpeedDen * enemyDX' + SpeedNum * enemyDX \in -5 .. 5
                        /\ (enemyDX = Scale \div 2) => enemyDX' = -((6 * Scale) \div 10)
                        /\ enemyY' = enemyY + 4 * Scale
            /\ ~touch => /\ enemyDX' = enemyDX
                         /\ enemyY' = enemyY
                         /\ enemyX' = enemyX + enemyDX]_vars

(* The formation has turned at the left edge: an alien drawn at x <= 0. *)
C7_Witness ==
    /\ obs.over = "none"
    /\ \E k \in obs.drawn : obs.ax[k] <= 0
    /\ enemyDX > 0 /\ enemyY = 8 * Scale

(* C8: a player bullet fired from (64, 50) that meets no alien box is one  *)
(* row higher at every tick boundary, the firing tick included, stays      *)
(* active while its y is above 0, and its slot is (0, 0) again after       *)
(* exactly 50 ticks.                                                       *)
C8_Flight ==
    /\ [](\A j \in PSlots :
            ((bulletX[j] # 0 \/ bulletY[j] # 0) /\ bulletX[j] = 64) =>
                /\ fired[j] > 0
                /\ bulletY[j] = 50 - (ticks - fired[j] + 1)
                /\ bulletY[j] > 0)
    /\ [][PlainTick =>
          \A j \in PSlots :
              (bulletX[j] = 64 /\ bulletY[j] # 0
                 /\ ~ \E k \in Aliens : \E h \in obs'.hit[k] : h[1] = j
                 /\ ~ (obs'.shot /\ j = currBulletId))
              => IF ticks' - fired[j] + 1 = 50
                 THEN bulletX'[j] = 0 /\ bulletY'[j] = 0 /\ j \in obs'.gone
                 ELSE bulletX'[j] = 64 /\ bulletY'[j] = bulletY[j] - 1
                      /\ j \notin obs'.gone]_vars

(* A bullet fired from (64, 50) has just left the top of the screen. *)
C8_Witness ==
    /\ shipX = 60 /\ shipY = 50
    /\ \E j \in obs.gone : bulletX[j] = 0 /\ bulletY[j] = 0

(* The state that gameReset() leaves. *)
ResetState ==
    /\ lives = 3 /\ shipAlive = 7 /\ shipX = 60 /\ shipY = 50
    /\ \A i \in Aliens : enemyAlive[i] = 7
    /\ enemyRemaining = 9
    /\ \A j \in PSlots : bulletX[j] = 0 /\ bulletY[j] = 0
    /\ \A j \in ESlots : enemyBulletX[j] = 0 /\ enemyBulletY[j] = 0
    /\ currBulletId = 0 /\ currEnemyBulletId = 0
    /\ bulletWait = 0 /\ enemyBulletWait = 5
    /\ enemyX = 10 * Scale /\ enemyY = 0 /\ 2 * enemyDX = Scale

(* C9: if shipAlive reaches 0 in a tick while lives = 1, that tick ends in *)
(* game over, and the next tick of play begins in the reset state; every   *)
(* gameOver(), whatever the state it is called in, leaves the reset state. *)
C9_LastLife ==
    /\ [][(pc = "play" /\ ticks' = ticks + 1 /\ lives = 1 /\ shipAlive = 1)
            => (obs'.over = "lives" /\ pc' # "play")]_vars
    /\ [][OverTick => ResetState']_vars
    /\ [][(pc # "play" /\ pc' = "play") => ResetState']_vars

(* Play has resumed after the ship lost its last life. *)
C9_Witness == pc = "play" /\ obs.over = "lives" /\ ticks > 0 /\ ResetState

(* C10 as stated: in gameOver() the state is reset only after the          *)
(* handshake, so during the two waits the game data are not yet those of   *)
(* the reset state.                                                        *)
C10_Original == (pc \in {"waitRelease", "waitPress"}) => ~ResetState

(* C10, amended: gameOver() resets the game data first, then shows its     *)
(* message, then waits for all buttons to be up and then for one to be     *)
(* down; the game data are those of the reset state throughout the two     *)
(* waits, the waits do not change them, and play resumes only from the     *)
(* second wait.                                                            *)
C10_ResetFirst ==
    /\ []((pc \in {"waitRelease", "waitPress"}) => (ResetState /\ display = "gameover"))
    /\ [][/\ OverTick => pc' = "waitRelease"
          /\ pc = "waitRelease" => (pc' \in {"waitRelease", "waitPress"}
                                    /\ UNCHANGED <<gameVars, display>>)
          /\ pc = "waitPress" => (pc' \in {"waitPress", "play"}
                                  /\ UNCHANGED <<gameVars, display>>)]_vars

(* The program is in the second wait, the message on the screen. *)
C10_Witness == pc = "waitPress" /\ display = "gameover" /\ ResetState

(* A call of gameLoop(), whatever its end. *)
Tick == pc = "play" /\ ticks' = ticks + 1

(* C11: a tick that reaches the win check with enemyRemaining = 0 goes     *)
(* through gameOver(), reset included, and returns: no alien is swept, no  *)
(* alien fires and no bullet is moved; and no tick runs the alien sweep    *)
(* with enemyRemaining = 0.  (The ship's last life, lost in the same tick, *)
(* ends the tick before the win check.)                                    *)
C11_Win ==
    /\ [][(Tick /\ enemyRemaining = 0) =>
            /\ obs'.over = (IF lives = 1 /\ shipAlive = 1 THEN "lives" ELSE "win")
            /\ pc' = "waitRelease"
            /\ ResetState'
            /\ obs'.drawn = {} /\ obs'.firers = << >> /\ obs'.ordinal = -1
            /\ obs'.gone = {} /\ obs'.shipHit = {}]_vars
    /\ [][(Tick /\ obs'.over \in {"none", "ground"}) => enemyRemaining > 0]_vars

(* The player has just won. *)
C11_Witness == pc = "waitRelease" /\ obs.over = "win" /\ ResetState

(* The aliens with vitality above 0, and the one that is number n + 1      *)
(* among them in sweep order.                                              *)
AliveSet == { k \in Aliens : enemyAlive[k] > 0 }

NthAlive(n) == { k \in AliveSet : Cardinality({ i \in AliveSet : i < k }) = n }

(* C16 as stated: when an ordinal r is drawn in a tick that does not end   *)
(* in game over, exactly one alien fires, the (r + 1)-th alien with        *)
(* vitality above 0 in sweep order, and exactly one enemy bullet is        *)
(* written, at (alienX + 4, alienY + 8).                                   *)
C16_Original ==
    [][(PlainTick /\ obs'.ordinal # -1) =>
          /\ Len(obs'.firers) = 1
          /\ obs'.firers[1] \in NthAlive(obs'.ordinal)
          /\ currEnemyBulletId' = (currEnemyBulletId + 1) % MAX_ENEMY_BULLETS]_vars

(* C17: an ordinal is drawn in a tick if and only if the aliens' cooldown, *)
(* after its decrement in that tick, is 0 and enemyRemaining > 0, and the  *)
(* cooldown is then set back to 5 at once; so enemyBulletWait is in 1 .. 5 *)
(* at every tick boundary, and ordinals are drawn every 5th decrement      *)
(* after a reset or a life loss (a life loss sets the cooldown to 5 before *)
(* the decrement of its own tick).                                         *)
C17_Cooldown ==
    /\ [](enemyBulletWait \in 1 .. 5)
    /\ [][PlainTick =>
          LET w == (IF obs'.lifeLost THEN 5 ELSE enemyBulletWait) - 1
          IN  /\ (obs'.ordinal # -1) <=> (w = 0 /\ enemyRemaining > 0)
              /\ (obs'.ordinal # -1) => obs'.ordinal = rnd % enemyRemaining
              /\ enemyBulletWait' = IF w = 0 THEN 5 ELSE w]_vars

(* An ordinal was drawn in the fifth tick of the cooldown that a life loss *)
(* started.                                                                *)
C17_Witness == lives = 2 /\ obs.ordinal # -1 /\ enemyBulletWait = 5

(* C18: in each tick bulletWait is decremented if it is above 0; a shot is *)
(* then made if and only if the fire button is down and bulletWait is 0;   *)
(* the shot writes (shipX + 4, shipY) at the cursor, advances the cursor   *)
(* and sets bulletWait to 10; without a shot the step leaves the pool, the *)
(* cursor and bulletWait alone.  (At the end of the tick a bullet has      *)
(* moved up one row, or was consumed by an alien, and a life lost in the   *)
(* tick has set bulletWait to 0.)                                          *)
C18_PlayerShot ==
    [][PlainTick =>
        LET w == IF bulletWait > 0 THEN bulletWait - 1 ELSE 0
            c == currBulletId
        IN  /\ obs'.shot <=> (obs'.fire /\ w = 0)
            /\ bulletWait' = IF obs'.lifeLost THEN 0
                             ELSE IF obs'.shot THEN 10 ELSE w
            /\ currBulletId' = IF obs'.shot THEN (c + 1) % 20 ELSE c
            /\ obs'.shot =>
                  \/ bulletX'[c] = (shipX' + 4) % 256 /\ bulletY'[c] = shipY' - 1
                  \/ /\ bulletX'[c] = 0 /\ bulletY'[c] = 0
                     /\ \E k \in Aliens : <<c, (shipX' + 4) % 256, shipY'>> \in obs'.hit[k]
            /\ \A j \in PSlots :
                  (~(obs'.shot /\ j = c) /\ bulletX[j] = 0 /\ bulletY[j] = 0)
                      => (bulletX'[j] = 0 /\ bulletY'[j] = 0)]_vars

(* The fire button was down during the cooldown and no shot was made. *)
C18_Witness == obs.fire /\ ~obs.shot /\ bulletWait \in 1 .. 9

(* C19: in every reachable state 0 <= shipX <= 120 and shipY = 50. *)
C19_Clamp == shipX \in 0 .. (SCREEN_WIDTH - SHIP_WIDTH) /\ shipX <= 120 /\ shipY = 50

(* The left button was down with the ship at x = 0, and the ship stayed. *)
C19_Witness == obs.sx0 = 0 /\ obs.left /\ ~obs.right /\ shipX = 0

(* C20: an active enemy bullet that, moved down one row, lies in the       *)
(* ship's box is set to (0, 0) whatever the ship's vitality; shipAlive     *)
(* becomes START_DYING only if it was ALIVE, and a ship that is dying      *)
(* keeps the vitality its countdown gave it.                               *)
C20_ShipHit ==
    [][PlainTick =>
        LET v == IF obs'.lifeLost THEN 7
                 ELSE IF shipAlive > 0 /\ shipAlive < 7 THEN shipAlive - 1
                 ELSE shipAlive
            new(i) == obs'.firers # << >> /\ i = currEnemyBulletId
            bx(i) == IF new(i) THEN (obs'.ax[obs'.firers[1]] + 4) % 256
                     ELSE enemyBulletX[i]
            by(i) == IF new(i) THEN (obs'.ay[obs'.firers[1]] + 8) % 256
                     ELSE enemyBulletY[i]
            inbox(i) == /\ bx(i) # 0 /\ by(i) # 0
                        /\ shipX' <= bx(i) /\ bx(i) <= shipX' + 8
                        /\ shipY' <= by(i) + 1 /\ by(i) + 1 <= shipY' + 8
            hits == { i \in ESlots : inbox(i) }
        IN  /\ obs'.shipHit = hits
            /\ \A i \in hits : enemyBulletX'[i] = 0 /\ enemyBulletY'[i] = 0
            /\ shipAlive' = IF hits # {} /\ v = 7 THEN 6 ELSE v]_vars

(* A bullet has hit a ship that was already dying. *)
C20_Witness == obs.shipHit # {} /\ shipAlive \in 1 .. 5

(* The bit of the frame buffer that stands for the point (x, y) of the     *)
(* screen, 0 <= x <= 127 and 0 <= y <= 63: bit (63 - y) mod 8 of byte      *)
(* ((63 - y) div 8) * 128 + x.                                             *)
PointByte(x, y) == ((63 - y) \div 8) * 128 + x

PointBit(x, y) == (63 - y) % 8

(* The step is a call of the lcd.c function or drawing helper named op. *)
LcdCall(op) == pc = "lcd" /\ call'.op = op

OnScreen(x, y, d) ==
    { 8 * PointByte((x + p[1]) % 256, (y + p[2]) % 256) + PointBit((x + p[1]) % 256, (y + p[2]) % 256) :
        p \in { q \in d : (x + q[1]) % 256 <= 127 /\ (y + q[2]) % 256 <= 63 } }

(* The offsets of the bits that are 1 in a bitmap of 8 rows. *)
Shape(bitmap) == { q \in (0 .. 7) \X (0 .. 7) : (bitmap[q[2] + 1] \div 2^(q[1])) % 2 = 1 }

(* C13: lcdDrawPixel(x, y) with x > 127 or y > 63 leaves the frame buffer  *)
(* as it was, for every 8-bit x and y; so draw8by8 and drawBullet add the  *)
(* bits of their points that are on the screen after the 8-bit wraparound  *)
(* of x + i and y + j, and nothing else, and no call writes outside the    *)
(* 1024 bytes.                                                             *)
C13_Ignored ==
    /\ [][(LcdCall("lcdDrawPixel") /\ (call'.x > 127 \/ call'.y > 63)) =>
            framebuffer' = framebuffer]_vars
    /\ [][LcdCall("draw8by8") =>
            framebuffer' = framebuffer \cup OnScreen(call'.x, call'.y, Shape(call'.bitmap))]_vars
    /\ [][LcdCall("drawBullet") =>
            framebuffer' = framebuffer \cup OnScreen(call'.x, call'.y, {<<0, 0>>, <<0, 1>>})]_vars
    /\ [](framebuffer \subseteq 0 .. (8 * FRAME_BYTES - 1))

(* The ship was drawn at (253, 252) on an empty buffer: the columns 253 to *)
(* 255 and the rows 252 to 255 are dropped, and the rest of the bitmap is  *)
(* at the columns 0 to 4 of the rows 0 to 3.                               *)
C13_Witness ==
    /\ call = [op |-> "draw8by8", bitmap |-> ship8, x |-> 253, y |-> 252]
    /\ framebuffer # {}
    /\ \A a \in framebuffer : a \div 8 \in 7 * 128 .. 7 * 128 + 4

(* The place on the panel of a byte written by lcdRepaint(): each          *)
(* controller drives 64 columns, the second one the columns 64 .. 127.     *)
PanelCol(w) == 64 * (w.chip - 1) + w.col

RepaintFacts(W) ==
    /\ framebuffer' = framebuffer
    /\ Len(W) = FRAME_BYTES
    /\ \A k \in 1 .. FRAME_BYTES :
          /\ W[k].data = ByteAt(framebuffer, W[k].page * 128 + PanelCol(W[k]))
          /\ W[k].chip = (IF PanelCol(W[k]) <= 63 THEN 1 ELSE 2)
    /\ { W[k].page * 128 + PanelCol(W[k]) : k \in 1 .. FRAME_BYTES } = 0 .. (FRAME_BYTES - 1)

(* C15 as stated: lcdRepaint leaves the frame buffer as it is and gives    *)
(* each of the 1024 bytes to the display once, byte page*128 + col as      *)
(* column col of page `page`, the pages in ascending order and the columns *)
(* ascending within each page.                                             *)
C15_Original ==
    [][LcdCall("lcdRepaint") =>
        /\ RepaintFacts(wire')
        /\ \A k \in 1 .. (FRAME_BYTES - 1) :
              \/ wire'[k].page < wire'[k + 1].page
              \/ /\ wire'[k].page = wire'[k + 1].page
                 /\ PanelCol(wire'[k]) < PanelCol(wire'[k + 1])]_vars

(* C15, amended: lcdRepaint leaves the frame buffer as it is and gives     *)
(* each of the 1024 bytes to the display once, byte page*128 + col as      *)
(* column col of page `page`, in two passes: the first controller gets the *)
(* columns 0 .. 63 of the pages 0 .. 7, then the second one the columns    *)
(* 64 .. 127 of the pages 0 .. 7; within a pass the pages ascend and the   *)
(* columns ascend within each page.                                        *)
C15_Passes ==
    [][LcdCall("lcdRepaint") =>
        /\ RepaintFacts(wire')
        /\ \A k \in 1 .. (FRAME_BYTES - 1) :
              \/ wire'[k].chip < wire'[k + 1].chip
              \/ /\ wire'[k].chip = wire'[k + 1].chip
                 /\ \/ wire'[k].page < wire'[k + 1].page
                    \/ /\ wire'[k].page = wire'[k + 1].page
                       /\ wire'[k].col < wire'[k + 1].col]_vars

(* A buffer with a ship in it was repainted: the last byte of the first    *)
(* pass is column 63 of page 7, the first of the second pass column 64 of  *)
(* page 0.                                                                 *)
C15_Witness ==
    /\ call.op = "lcdRepaint"
    /\ Len(wire) = FRAME_BYTES
    /\ wire[512].page = 7 /\ PanelCol(wire[512]) = 63
    /\ wire[513].page = 0 /\ PanelCol(wire[513]) = 64
    /\ \E k \in 1 .. FRAME_BYTES : wire[k].data = 189

(* C14: in every turn of the main loop the frame buffer is all 0 when      *)
(* gameLoop() starts, and no call made from there to the lcdRepaint() that *)
(* ends the turn changes a bit from 1 to 0, the three lcdPrintText() calls *)
(* of gameOver() included; the waits of gameOver() leave the buffer alone. *)
C14_Additive ==
    /\ [][Tick => (obs'.blank /\ obs'.cleared = {})]_vars
    /\ [][(pc \in {"waitRelease", "waitPress"}) => framebuffer' = framebuffer]_vars

(* A turn that ended in gameOver() with the ship drawn: the buffer has the *)
(* ship in the pages 0 and 1 and the text in the pages 5 to 7, and the     *)
(* text took no bit away.                                                  *)
C14_Witness ==
    /\ pc = "waitRelease" /\ obs.shipDrawn
    /\ Len(obs.calls) >= 4
    /\ \E a \in framebuffer : a \div 8 < 2 * 128
    /\ \E a \in framebuffer : a \div 8 >= 5 * 128
    /\ obs.cleared = {}

(* C21: a tick that starts with the ship's countdown at 1 and more than    *)
(* one life is a life loss: one life is taken, the ship is ALIVE again     *)
(* (or already hit again, 6), the player's cooldown ends the tick at 0 and *)
(* the enemy cooldown at ENEMY_WAIT_BETWEEN_FIRE less the tick's own       *)
(* decrement, and no alien fires.  Nothing else is reset: the round goes   *)
(* on, the ship moves from where it was, dead aliens stay dead, the        *)
(* formation keeps its offsets and speed, and active bullets fly on.  With *)
(* one life left the same tick is the game over.                           *)
HitSlots == { h[1] : h \in UNION { obs.hit[k] : k \in Aliens } }

LifeLossTick == Tick /\ shipAlive = 1 /\ lives > 1

C21_LifeLoss ==
    /\ [][LifeLossTick =>
            /\ obs'.lifeLost /\ obs'.over = "none" /\ pc' = "play"
            /\ lives' = lives - 1
            /\ shipAlive' = (IF obs'.shipHit = {} THEN ALIVE ELSE ALIVE - 1)
            /\ bulletWait' = 0
            /\ enemyBulletWait' = ENEMY_WAIT_BETWEEN_FIRE - 1
            /\ obs'.ordinal = -1 /\ currEnemyBulletId' = currEnemyBulletId
            /\ shipX' = obs'.sx0 + (IF obs'.right /\ obs'.sx0 < SCREEN_WIDTH - SHIP_WIDTH
                                     THEN SHIP_X_MOVE ELSE 0)
                                 - (IF obs'.left /\ ~obs'.right /\ obs'.sx0 > 0
                                     THEN SHIP_X_MOVE ELSE 0)
            /\ obs'.sx0 = shipX /\ shipY' = shipY
            /\ \A k \in Aliens : enemyAlive[k] = 0 => enemyAlive'[k] = 0
            /\ enemyRemaining' <= enemyRemaining
            /\ enemyY' >= enemyY /\ enemyX' = enemyX + enemyDX'
            /\ \A j \in ESlots :
                  (enemyBulletY[j] # 0 /\ j \notin obs'.shipHit
                     /\ enemyBulletY[j] + ENEMY_BULLET_SPEED < SCREEN_HEIGHT)
                  => /\ enemyBulletX'[j] = enemyBulletX[j]
                     /\ enemyBulletY'[j] = enemyBulletY[j] + ENEMY_BULLET_SPEED
            /\ \A j \in PSlots :
                  (bulletY[j] > SHIP_BULL_SPEED /\ j \notin HitSlots')
                  => /\ bulletX'[j] = bulletX[j]
                     /\ bulletY'[j] = bulletY[j] - SHIP_BULL_SPEED]_vars
    /\ [][(Tick /\ obs'.lifeLost) => LifeLossTick]_vars
    /\ [][(Tick /\ shipAlive = 1 /\ lives = 1)
            => (obs'.over = "lives" /\ ~obs'.lifeLost /\ ResetState')]_vars

C21_Witness ==
    /\ obs.lifeLost /\ lives = 2 /\ shipX # 60
    /\ \E k \in Aliens : enemyAlive[k] = 0
    /\ \E j \in ESlots : enemyBulletY[j] # 0
    /\ \E j \in PSlots : bulletY[j] # 0

(* C22: in a tick without game over every slot that was active when the   *)
(* tick began has moved by one row, the player's bullets up and the        *)
(* enemy's down, and is (0,0) exactly when it was consumed by a collision  *)
(* or left the screen.  The two loops do not test the same bound: a        *)
(* player bullet leaves when its new y is 0 or above SCREEN_HEIGHT, an     *)
(* enemy bullet when its new y is SCREEN_HEIGHT or above, so no enemy      *)
(* bullet ends a tick at y = 64.                                           *)
PlayerLeaves(n) == n = 0 \/ n > SCREEN_HEIGHT

PlayerRule ==
    \A j \in PSlots : (bulletX[j] # 0 /\ bulletY[j] # 0) =>
        LET n == U8(bulletY[j] - SHIP_BULL_SPEED)
        IN  IF j \in HitSlots' \/ PlayerLeaves(n)
            THEN bulletX'[j] = 0 /\ bulletY'[j] = 0
            ELSE bulletX'[j] = bulletX[j] /\ bulletY'[j] = n

EnemyRule(leaves(_)) ==
    \A j \in ESlots : (enemyBulletX[j] # 0 /\ enemyBulletY[j] # 0) =>
        LET n == U8(enemyBulletY[j] + ENEMY_BULLET_SPEED)
        IN  IF j \in obs'.shipHit \/ leaves(n)
            THEN enemyBulletX'[j] = 0 /\ enemyBulletY'[j] = 0
            ELSE enemyBulletX'[j] = enemyBulletX[j] /\ enemyBulletY'[j] = n

EnemyLeaves(n) == n >= SCREEN_HEIGHT

(* C22 as stated: both pools drop a bullet at new y = 0 or new y > 64. *)
C22_Original == [][PlainTick => (PlayerRule /\ EnemyRule(PlayerLeaves))]_vars

C22_Advance ==
    /\ [][PlainTick => (PlayerRule /\ EnemyRule(EnemyLeaves))]_vars
    /\ [][PlainTick => \A j \in ESlots : enemyBulletY'[j] < SCREEN_HEIGHT]_vars
    /\ [][PlainTick => (obs'.fell = { j \in ESlots :
                            /\ enemyBulletX[j] # 0 /\ j \notin obs'.shipHit
                            /\ enemyBulletY[j] = SCREEN_HEIGHT - ENEMY_BULLET_SPEED })]_vars

C22_Witness ==
    /\ obs.fell # {} /\ obs.over = "none"
    /\ \E j \in ESlots : enemyBulletY[j] \in 1 .. (SCREEN_HEIGHT - 1)
    /\ \E j \in PSlots : bulletY[j] # 0

(* C23: a tick in which the sweep draws an alien whose y + ALIEN_HEIGHT is *)
(* SCREEN_HEIGHT or more is a game over by the ground, whatever the number *)
(* of lives: the tick ends in the reset state with the button wait ahead.  *)
(* That alien is the last one the sweep visits, and neither the formation  *)
(* advance nor the two bullet loops run in that tick.                      *)
C23_Ground ==
    /\ [][(Tick /\ \E k \in obs'.drawn : obs'.ay[k] + ALIEN_HEIGHT >= SCREEN_HEIGHT)
            => (obs'.over = "ground" /\ ResetState' /\ pc' # "play")]_vars
    /\ [][(Tick /\ obs'.over = "ground") =>
            /\ \E k \in obs'.drawn :
                  /\ obs'.ay[k] + ALIEN_HEIGHT >= SCREEN_HEIGHT
                  /\ \A i \in obs'.drawn : i <= k
                  /\ \A i \in obs'.drawn : i < k => obs'.ay[i] + ALIEN_HEIGHT < SCREEN_HEIGHT
            /\ obs'.gone = {} /\ obs'.shipHit = {} /\ obs'.fell = {}
            /\ \A n \in 1 .. Len(obs'.calls) : obs'.calls[n].op # "drawBullet"
            /\ enemyX' = 10 * Scale /\ obs'.lives0 = lives]_vars

C23_Witness ==
    /\ obs.over = "ground" /\ ResetState /\ obs.lives0 = 2
    /\ \E k \in obs.drawn : k < ENEMY_COUNT - 1 /\ obs.ay[k] + ALIEN_HEIGHT = SCREEN_HEIGHT

(* C24: the ship is drawn exactly in the ticks that find shipAlive odd.    *)
(* Counting from the tick t in which an enemy bullet took the ship from    *)
(* ALIVE to START_DYING, and as long as the round has not ended by a win   *)
(* or by the ground, the ship is not drawn in t+1, t+3 and t+5, is drawn   *)
(* in t+2, t+4 and t+6, and tick t+6, and no other, is the life loss or    *)
(* the game over by lives; every life taken belongs to one such hit.       *)
SinceHit == IF obs.hitAt = 0 THEN 0 ELSE (ticks + 1) - obs.hitAt

ShipEnds == obs.lifeLost \/ obs.over = "lives"

C25_Original ==
    /\ [][(Tick /\ obs'.shot) => obs.shotAt = 0]_vars
    /\ [][PlainTick =>
            bulletWait' = (IF obs'.shot THEN PLAYER_WAIT_BETWEEN_FIRE
                           ELSE IF bulletWait > 0 THEN bulletWait - 1 ELSE 0)]_vars

(* C25: a shot is made only when bulletWait, after its decrement, is 0.    *)
(* Within a round bulletWait changes by the decrement, by the reset to     *)
(* PLAYER_WAIT_BETWEEN_FIRE at a shot, and by the reset to 0 at a life     *)
(* loss.  Two successive shots are at least PLAYER_WAIT_BETWEEN_FIRE ticks *)
(* apart unless a life was lost in the tick of the first or between them.  *)
C25_Gap ==
    /\ [][(Tick /\ obs'.shot) => bulletWait <= 1]_vars
    /\ [][PlainTick =>
            bulletWait' = (IF obs'.lifeLost THEN 0
                           ELSE IF obs'.shot THEN PLAYER_WAIT_BETWEEN_FIRE
                           ELSE IF bulletWait > 0 THEN bulletWait - 1 ELSE 0)]_vars
    /\ [][(Tick /\ obs'.shot /\ obs.shotAt > 0) => obs.lossAt >= obs.shotAt]_vars
    /\ [][(Tick /\ obs'.shot /\ obs.shotAt > 0) => obs'.gap = ticks' - obs.shotAt]_vars

(* A shot less than ten ticks after the last one, a life lost in between. *)
C25_Witness ==
    /\ obs.shot /\ obs.gap \in 1 .. (PLAYER_WAIT_BETWEEN_FIRE - 1)
    /\ obs.lossAt > 0 /\ obs.lossAt < obs.shotAt

C27_Origin ==
    [][Tick =>
        /\ \A k \in obs'.drawn :
              /\ ~InAlienBox(obs'.ax[k], obs'.ay[k], 0, 0)
              /\ obs'.ay[k] >= 0
              /\ obs'.ay[k] = 0 => obs'.ax[k] >= 10
        /\ \A k \in Aliens : \A h \in obs'.hit[k] : h[2] # 0 /\ h[3] # 0]_vars

(* An alien at the left edge, its box over x = 0, was scanned against a    *)
(* pool with empty slots and with bullets in flight, and stays alive.      *)
C27_Witness ==
    /\ \E k \in obs.drawn :
          /\ obs.ax[k] <= 0 /\ 0 <= obs.ax[k] + ALIEN_WIDTH
          /\ obs.hit[k] = {} /\ enemyAlive[k] = ALIVE
    /\ \E j \in PSlots : bulletX[j] = 0 /\ bulletY[j] = 0
    /\ \E j \in PSlots : bulletX[j] # 0 /\ bulletY[j] # 0

(* C28 as stated: at every tick boundary each slot of the two pools is     *)
(* either (0,0) or has x and y both different from 0.                      *)
C28_Original ==
    /\ \A j \in PSlots : (bulletX[j] = 0) = (bulletY[j] = 0)
    /\ \A j \in ESlots : (enemyBulletX[j] = 0) = (enemyBulletY[j] = 0)

(* C29: lives is 1, 2 or 3 at every tick boundary.  It changes only in a   *)
(* call of gameLoop(): by -1 at a life loss, which needs more than one     *)
(* life, and to 3 at a game over; the game over by lives finds lives = 1   *)
(* and does not decrement it.                                              *)
C29_Lives ==
    /\ [](lives \in 1 .. 3)
    /\ [][lives' # lives =>
            /\ Tick
            /\ \/ obs'.lifeLost /\ obs'.over = "none" /\ lives > 1 /\ lives' = lives - 1
               \/ obs'.over # "none" /\ lives' = 3]_vars
    /\ [][(Tick /\ obs'.lifeLost /\ obs'.over = "none") => lives' = lives - 1]_vars
    /\ [][(Tick /\ obs'.over = "lives") =>
            (lives = 1 /\ obs'.lives0 = 1 /\ ~obs'.lifeLost /\ lives' = 3)]_vars
    /\ [][Tick => obs'.lives0 = lives]_vars

(* The last life has just ended in a game over. *)
C29_Witness == obs.over = "lives" /\ obs.lives0 = 1 /\ lives = 3 /\ pc = "waitRelease"

(* C30: the round that starts in the reset state ends: whatever the player *)
(* does and whatever rand() returns, some call of gameLoop() enters the    *)
(* game-over sequence, by the ship's last life, by a win or by an alien on *)
(* the ground.                                                             *)
C30_Ends == <>(obs.over # "none")

(* A round has ended with the aliens on the ground, later than the ship's  *)
(* lives could have ended it.                                              *)
C30_Witness ==
    /\ obs.over = "ground" /\ pc = "waitRelease" /\ ResetState
    /\ obs.bounces >= 1 /\ ticks > 4 * (SCREEN_WIDTH - ALIEN_WIDTH)

(* The aliens for which the sweep of the last call took the edge branch. *)
Turners(o) ==
    { k \in o.drawn : o.ax[k] <= 0 \/ o.ax[k] + ALIEN_WIDTH >= SCREEN_WIDTH }

Magnitude(v) == IF v >= 0 THEN v ELSE -v

(* C31 as stated: in a call that does not end in a game over enemyY does   *)
(* not decrease and the magnitude of enemyDX does not decrease; enemyDX    *)
(* changes sign exactly when the edge branch was taken; and an alien that  *)
(* took the edge branch in the call before does not take it in this call.  *)
C31_Original ==
    [][PlainTick =>
        /\ enemyY' >= enemyY
        /\ Magnitude(enemyDX') >= Magnitude(enemyDX)
        /\ ((enemyDX' > 0) # (enemyDX > 0)) = (obs'.bounces > 0)
        /\ obs.over = "none" => Turners(obs) \cap Turners(obs') = {}]_vars

(* C31, the part that holds: in a call that does not end in a game over    *)
(* enemyY does not decrease, the magnitude of enemyDX does not decrease,   *)
(* and enemyDX changes sign exactly when the edge branch was taken; an     *)
(* alien that took the edge branch in the call before and takes it again   *)
(* in this call was hit while dying in the call before.                    *)
C31_Escalates ==
    [][PlainTick =>
        /\ enemyY' >= enemyY
        /\ Magnitude(enemyDX') >= Magnitude(enemyDX)
        /\ ((enemyDX' > 0) # (enemyDX > 0)) = (obs'.bounces > 0)
        /\ obs.over = "none" =>
              \A k \in Turners(obs) \cap Turners(obs') :
                  obs.hit[k] # {} /\ enemyAlive[k] = START_DYING - 1]_vars

(* A dying alien at the left edge has turned the formation and was hit in  *)
(* the same call, so that it is drawn again in the next call.              *)
C31_Witness ==
    /\ obs.over = "none" /\ obs.bounces = 1 /\ enemyDX > 0
    /\ \E k \in Turners(obs) :
          /\ obs.ax[k] <= 0 /\ obs.hit[k] # {}
          /\ enemyAlive[k] = START_DYING - 1
          /\ AlienXY([enemyX |-> enemyX, enemyY |-> enemyY], k).x <= 0

====
